---- MODULE Spec2Model ----
(***************************************************************************)
(* Model of ixdat's lazy object layer, src/src/ixdat/db/db.py:             *)
(*   PlaceHolderObject (__init__, short_identity) and fill_object_list.    *)
(*                                                                         *)
(* db.py reads two names it does not define or import, DB (the process-    *)
(* wide database whose attribute `backend` is the active backend) and      *)
(* database_backends (whose entry "none" is the none-sentinel).  They are  *)
(* modelled from spec.md, section 6 "Active backend pointer": DB_backend   *)
(* starts as the none-sentinel and configuration code may switch it.       *)
(***************************************************************************)
EXTENDS Integers, Sequences, FiniteSets, TLC

VARIABLES
    DB_backend,   \* DB.backend, the active backend pointer
    caller_list,  \* the caller's list object, handed to fill_object_list
    call,         \* the last call of fill_object_list: arguments and outcome
    proxy,        \* the last construction of a PlaceHolderObject: arguments and outcome
    reads,        \* the values read from proxy's short_identity, oldest first
    loads,        \* the calls of proxy's get_object, oldest first
    entity,       \* the Saveable object at hand
    ser,          \* the last call of a method of entity: arguments and outcome
    store,        \* what save has done outside the process
    instances,    \* Saveable objects that are asked for ids
    issued        \* per object, what get_next_available_id returned, oldest first

vars ==
    <<DB_backend, caller_list, call, proxy, reads, loads, entity, ser, store,
      instances, issued>>

\* The state of the Saveable object and of its storage.
saveable_vars == <<entity, ser, store>>

\* The objects that are asked for ids, and the ids they gave.
counter_vars == <<instances, issued>>

(***************************************************************************)
(* Bounds                                                                  *)
(***************************************************************************)
MaxId == 3        \* ids are 1..MaxId
MaxLen == 3       \* a list, with the ids it is filled with, stays this short
MaxReads == 3     \* short_identity is read at most this often per proxy
MaxLoads == 2     \* get_object is called at most this often per proxy
MaxSaves == 2     \* save is called at most this often
NumInstances == 2 \* Saveable objects that are asked for ids
MaxIssued == 4    \* get_next_available_id is called at most this often per object

Ids == 1..MaxId

(***************************************************************************)
(* Values                                                                  *)
(***************************************************************************)
None == "None"                     \* Python's None: an absent argument
NoneString == "none"               \* the string "none" (db.py:171)
NoneBackend == "database_backends[none]"   \* the none-sentinel object (db.py:171)
ConcreteBackends == {"memory", "directory"}
ActiveBackends == ConcreteBackends \cup {NoneBackend}
BackendArgs == ActiveBackends \cup {None, NoneString}

EntityClasses == {"DataSeries", "Measurement"}
PlaceHolderClass == "PlaceHolderObject"
OpaqueClass == "object"

\* `not x` for the values above: only None is falsy.
Falsy(x) == x = None

\* An element of an object list.  class is type(s); hasid says whether s.id
\* exists; cls and backend are the attributes of a PlaceHolderObject.
Element(class, hasid, id, cls, backend) ==
    [class |-> class, hasid |-> hasid, id |-> id, cls |-> cls, backend |-> backend]

\* A loaded object of a Saveable class: it has an id, and is no placeholder.
Loaded(class, id) == Element(class, TRUE, id, None, None)
\* An object with no attribute id.
Opaque == Element(OpaqueClass, FALSE, 0, None, None)
NoObject == Element(None, FALSE, 0, None, None)

LoadedObjects == {Loaded(c, i) : c \in EntityClasses, i \in Ids}

\* A list argument that may be None.
NoneList == [isNone |-> TRUE, items |-> <<>>]
List(s) == [isNone |-> FALSE, items |-> s]

\* identity argument of PlaceHolderObject: an int, or a tuple (backend, id).
IntIdentity(i) == [isint |-> TRUE, backend |-> None, id |-> i]
TupleIdentity(b, i) == [isint |-> FALSE, backend |-> b, id |-> i]

SeqsUpTo(S, n) == UNION {[1..k -> S] : k \in 0..n}

(***************************************************************************)
(* PlaceHolderObject                                                       *)
(***************************************************************************)
\* Mutant of RefusedBackend: only `not backend` is tested.
RefusedBackend_falsyOnly(backend) == Falsy(backend)

\* db.py:171, the test that refuses a backend.
RefusedBackend(backend) ==
    Falsy(backend) \/ backend = NoneString \/ backend = NoneBackend

\* Mutant of UnpackedBackend: a backend argument wins over the tuple's.
UnpackedBackend_argumentFirst(identity, backend) ==
    IF identity.isint \/ ~Falsy(backend) THEN backend ELSE identity.backend

\* db.py:163-166: the backend in hand after the identity is unpacked.  A
\* tuple identity assigns its first component to the local name `backend`,
\* overwriting the argument.
UnpackedBackend(identity, backend) ==
    IF identity.isint THEN backend ELSE identity.backend

\* Mutant of PlaceHolderObject_init: the proxy keeps the backend it was given,
\* not the one resolved from the active backend.
PlaceHolderObject_init_keepsGiven(identity, cls, backend, active) ==
    LET unpacked == UnpackedBackend(identity, backend)
        resolved == IF Falsy(unpacked) THEN active ELSE unpacked
    IN  IF RefusedBackend(resolved)
        THEN [err |-> "DataBaseError", obj |-> NoObject]
        ELSE [err |-> "ok",
              obj |-> Element(PlaceHolderClass, TRUE, identity.id, cls, unpacked)]

\* PlaceHolderObject.__init__(identity, cls, backend) with DB.backend = active.
\* err is "ok" and obj the constructed proxy, or err is the error raised.
PlaceHolderObject_init(identity, cls, backend, active) ==
    LET unpacked == UnpackedBackend(identity, backend)
        resolved == IF Falsy(unpacked) THEN active ELSE unpacked
    IN  IF RefusedBackend(resolved)
        THEN [err |-> "DataBaseError", obj |-> NoObject]
        ELSE [err |-> "ok",
              obj |-> Element(PlaceHolderClass, TRUE, identity.id, cls, resolved)]

\* Mutant of short_identity: the test is inverted.
short_identity_inverted(self, active) ==
    IF self.backend # active
    THEN IntIdentity(self.id)
    ELSE TupleIdentity(self.backend, self.id)

\* PlaceHolderObject.short_identity read while DB.backend = active: the bare
\* id, or the tuple (backend, id).
short_identity(self, active) ==
    IF self.backend = active
    THEN IntIdentity(self.id)
    ELSE TupleIdentity(self.backend, self.id)

\* Mutant of get_object: the backend is not handed on.
get_object_noBackend(self) ==
    [request |-> [cls |-> self.cls, id |-> self.id, backend |-> None],
     self |-> self]

\* Mutant of get_object: the proxy turns itself into an object of its class.
get_object_becomesObject(self) ==
    [request |-> [cls |-> self.cls, id |-> self.id, backend |-> self.backend],
     self |-> [self EXCEPT !.class = self.cls]]

\* PlaceHolderObject.get_object: the arguments it hands to self.cls.get, and
\* the proxy after the call (nothing is assigned to self).
get_object(self) ==
    [request |-> [cls |-> self.cls, id |-> self.id, backend |-> self.backend],
     self |-> self]

\* cls.get(id, backend=backend), which db.py calls and does not define: the
\* backend's load, which yields the object of that class at that id.
Saveable_get(request) ==
    Element(request.cls, TRUE, request.id, None, request.backend)

\* Saveable.identity: the body is `pass`, so it returns None (shaped as an
\* identity so that it can be compared with one).
NoIdentity == [isint |-> FALSE, backend |-> None, id |-> 0]
Saveable_identity(self) == NoIdentity

(***************************************************************************)
(* fill_object_list                                                        *)
(***************************************************************************)
Raise(e, arg) == [err |-> e, ret |-> NoneList, arg |-> arg]
Return(lst, arg) == [err |-> "ok", ret |-> List(lst), arg |-> arg]

\* Mutant of ClassError: object_list[0] is evaluated whether or not cls is given.
ClassError_eager(object_list, cls) ==
    IF object_list.isNone THEN "TypeError"
    ELSE IF object_list.items = <<>> THEN "IndexError"
    ELSE "ok"

\* db.py:201, `cls = cls or object_list[0].__class__`: the error raised by
\* the right operand, evaluated only when cls is falsy; "ok" when none.
ClassError(object_list, cls) ==
    IF ~Falsy(cls) THEN "ok"
    ELSE IF object_list.isNone THEN "TypeError"
    ELSE IF object_list.items = <<>> THEN "IndexError"
    ELSE "ok"

\* Mutant of DeterminedClass: the class is taken from the last element.
DeterminedClass_last(object_list, cls) ==
    IF ~Falsy(cls) THEN cls
    ELSE object_list.items[Len(object_list.items)].class

\* db.py:201: the class the call gives its placeholders.
DeterminedClass(object_list, cls) ==
    IF ~Falsy(cls) THEN cls ELSE object_list.items[1].class

\* Mutant of TryCompletes: an element without id does not raise.
TryCompletes_idOptional(lst) == lst # <<>>

\* db.py:203-207: whether the try block runs to its end.  The comprehension
\* raises AttributeError on an element without id, and the print's
\* object_list[0] raises IndexError on an empty list; the bare except
\* catches both.
TryCompletes(lst) ==
    /\ \A k \in DOMAIN lst : lst[k].hasid
    /\ lst # <<>>

\* Mutant of ProvidedIds: placeholders do not count as provided.
ProvidedIds_loadedOnly(lst) ==
    {lst[k].id : k \in {j \in DOMAIN lst : lst[j].class # PlaceHolderClass}}

\* db.py:204: provided_series_ids
ProvidedIds(lst) == {lst[k].id : k \in DOMAIN lst}

\* Mutant of AppendMissing: a new placeholder is inserted at the front.
RECURSIVE AppendMissing_atFront(_, _, _, _, _)
AppendMissing_atFront(lst, obj_ids, provided, cls, active) ==
    IF obj_ids = <<>> THEN [err |-> "ok", items |-> lst]
    ELSE LET identity == Head(obj_ids) IN
         IF identity \in provided
         THEN AppendMissing_atFront(lst, Tail(obj_ids), provided, cls, active)
         ELSE LET made == PlaceHolderObject_init(IntIdentity(identity), cls, None, active)
              IN  IF made.err # "ok"
                  THEN [err |-> made.err, items |-> lst]
                  ELSE AppendMissing_atFront(<<made.obj>> \o lst, Tail(obj_ids),
                                             provided, cls, active)

\* Mutant of AppendMissing: an error of the constructor is caught and the id
\* is skipped.
RECURSIVE AppendMissing_skipsFailed(_, _, _, _, _)
AppendMissing_skipsFailed(lst, obj_ids, provided, cls, active) ==
    IF obj_ids = <<>> THEN [err |-> "ok", items |-> lst]
    ELSE LET identity == Head(obj_ids) IN
         IF identity \in provided
         THEN AppendMissing_skipsFailed(lst, Tail(obj_ids), provided, cls, active)
         ELSE LET made == PlaceHolderObject_init(IntIdentity(identity), cls, None, active)
              IN  IF made.err # "ok"
                  THEN AppendMissing_skipsFailed(lst, Tail(obj_ids), provided,
                                                 cls, active)
                  ELSE AppendMissing_skipsFailed(Append(lst, made.obj), Tail(obj_ids),
                                                 provided, cls, active)

\* Mutant of AppendMissing: a new placeholder takes the place of the last
\* element.
RECURSIVE AppendMissing_replacesLast(_, _, _, _, _)
AppendMissing_replacesLast(lst, obj_ids, provided, cls, active) ==
    IF obj_ids = <<>> THEN [err |-> "ok", items |-> lst]
    ELSE LET identity == Head(obj_ids) IN
         IF identity \in provided
         THEN AppendMissing_replacesLast(lst, Tail(obj_ids), provided, cls, active)
         ELSE LET made == PlaceHolderObject_init(IntIdentity(identity), cls, None, active)
              IN  IF made.err # "ok"
                  THEN [err |-> made.err, items |-> lst]
                  ELSE AppendMissing_replacesLast(
                           Append(SubSeq(lst, 1, Len(lst) - 1), made.obj),
                           Tail(obj_ids), provided, cls, active)

\* Mutant of AppendMissing: the list is appended to before the constructor
\* has refused, and the refused id stays in it as an object without class.
RECURSIVE AppendMissing_keepsFailed(_, _, _, _, _)
AppendMissing_keepsFailed(lst, obj_ids, provided, cls, active) ==
    IF obj_ids = <<>> THEN [err |-> "ok", items |-> lst]
    ELSE LET identity == Head(obj_ids) IN
         IF identity \in provided
         THEN AppendMissing_keepsFailed(lst, Tail(obj_ids), provided, cls, active)
         ELSE LET made == PlaceHolderObject_init(IntIdentity(identity), cls, None, active)
              IN  IF made.err # "ok"
                  THEN [err |-> made.err, items |-> Append(lst, made.obj)]
                  ELSE AppendMissing_keepsFailed(Append(lst, made.obj), Tail(obj_ids),
                                                 provided, cls, active)

\* db.py:211-213: the loop over obj_ids.  provided is computed before the
\* loop and not updated in it.  An error of the constructor leaves the loop
\* with the list as appended to so far.
RECURSIVE AppendMissing(_, _, _, _, _)
AppendMissing(lst, obj_ids, provided, cls, active) ==
    IF obj_ids = <<>> THEN [err |-> "ok", items |-> lst]
    ELSE LET identity == Head(obj_ids) IN
         IF identity \in provided
         THEN AppendMissing(lst, Tail(obj_ids), provided, cls, active)
         ELSE LET made == PlaceHolderObject_init(IntIdentity(identity), cls, None, active)
              IN  IF made.err # "ok"
                  THEN [err |-> made.err, items |-> lst]
                  ELSE AppendMissing(Append(lst, made.obj), Tail(obj_ids),
                                     provided, cls, active)

\* Mutant of fill_object_list: the placeholders are appended to a copy, and
\* the caller's list stays as it was.
fill_object_list_onCopy(object_list, obj_ids, cls, active) ==
    IF ClassError(object_list, cls) # "ok"
    THEN Raise(ClassError(object_list, cls), object_list)
    ELSE LET cls1 == DeterminedClass(object_list, cls)
             lst == object_list.items
         IN  IF ~TryCompletes(lst) THEN Return(lst, object_list)
             ELSE IF obj_ids.isNone \/ obj_ids.items = <<>>
                  THEN Return(lst, object_list)
             ELSE LET r == AppendMissing(lst, obj_ids.items, ProvidedIds(lst),
                                         cls1, active)
                  IN  IF r.err = "ok"
                      THEN Return(r.items, object_list)
                      ELSE Raise(r.err, object_list)

\* fill_object_list(object_list, obj_ids, cls) with DB.backend = active.
\* err is "ok" and ret the returned list, or err is the error raised; arg is
\* the caller's list object after the call (the list is appended to in place
\* unless `object_list or []` replaced it by a new list).
fill_object_list(object_list, obj_ids, cls, active) ==
    IF ClassError(object_list, cls) # "ok"
    THEN Raise(ClassError(object_list, cls), object_list)
    ELSE LET cls1 == DeterminedClass(object_list, cls)
             lst == object_list.items      \* a new [] if None or empty
         IN  IF ~TryCompletes(lst) THEN Return(lst, object_list)
             ELSE IF obj_ids.isNone \/ obj_ids.items = <<>>
                  THEN Return(lst, object_list)
             ELSE LET r == AppendMissing(lst, obj_ids.items, ProvidedIds(lst),
                                         cls1, active)
                  IN  IF r.err = "ok"
                      THEN Return(r.items, List(r.items))
                      ELSE Raise(r.err, List(r.items))

(***************************************************************************)
(* Saveable                                                                *)
(***************************************************************************)
\* Attribute names: name and metadata (models.py:23-29), ec_technique
\* (models.py:12, ec_ms.py:22).
AttrNames == {"name", "metadata", "ec_technique"}
\* Attribute names that classes declare under extra_column_attrs.
ExtraAttrNames == {"metadata", "ec_technique"}
\* Table names, the keys of extra_column_attrs (ec_ms.py:22, ec_ms.py:497).
TableNames == {"ecms_meaurements", "ecms_calibrations"}
AttrValues == {0, 1}

\* "metadata" is reserved by SQLAlchemy (db.py:67); save stores it as
\* "ixd_metadata" (db.py:68).
ReservedName == "metadata"
RenamedName == "ixd_metadata"

\* The keys of SAVEABLE_TO_DATABASE_MODEL, and its values.
RegisteredClasses ==
    {"Measurement", "MSMeasurement", "ECMeasurement", "ECMSMeasurement",
     "DataSeries", "TimeSeries", "ValueSeries", "ConstantSeries"}
SAVEABLE_TO_DATABASE_MODEL == [c \in RegisteredClasses |-> "DB" \o c]

\* Classes of the Saveable objects at hand: ECMSMeasurement is registered,
\* ECMSCalibration (ec_ms.py:493) is not.
SaveableClasses == {"ECMSMeasurement", "ECMSCalibration"}

\* A set of names that may be None: column_attrs, and the argument exclude.
NoneNames == [isNone |-> TRUE, names |-> {}]
Names(S) == [isNone |-> FALSE, names |-> S]
\* extra_column_attrs: None, or a dict from table name to a set of names.
NoneTables == [isNone |-> TRUE, tables |-> <<>>]
Tables(f) == [isNone |-> FALSE, tables |-> f]

\* A Saveable object: its class, what the class declares, the values of its
\* attributes, and its counter.
NoEntity ==
    [class |-> None, column_attrs |-> NoneNames, extra_column_attrs |-> NoneTables,
     attrs |-> [n \in AttrNames |-> 0], counter |-> 0]

\* Saveable.__init__ (db.py:47-49) of an object of a class with these
\* declarations, after the subclass has set the attributes.
Saveable_init(class, column_attrs, extra_column_attrs, attrs) ==
    [class |-> class, column_attrs |-> column_attrs,
     extra_column_attrs |-> extra_column_attrs, attrs |-> attrs, counter |-> 0]

\* db.py:116-119: the names declared under any table of extra_column_attrs;
\* None and an empty dict are falsy and give none.
ExtraColumns(self) ==
    IF self.extra_column_attrs.isNone THEN {}
    ELSE UNION {self.extra_column_attrs.tables[t] :
                    t \in DOMAIN self.extra_column_attrs.tables}

\* Mutant of MainDictKeys: exclude is applied to the extra columns too.
MainDictKeys_excludeAll(self, exclude) ==
    (self.column_attrs.names \cup ExtraColumns(self)) \ exclude.names

\* db.py:103, 110-119: the keys of the dict get_main_dict builds.
MainDictKeys(self, exclude) ==
    (self.column_attrs.names \ exclude.names) \cup ExtraColumns(self)

\* Mutant of ColumnAttrsError: an undefined column_attrs counts as empty.
ColumnAttrsError_unchecked(self) == "ok"

\* db.py:104-108
ColumnAttrsError(self) ==
    IF self.column_attrs.isNone THEN "DataBaseError" ELSE "ok"

\* Saveable.get_main_dict(exclude).  err is "ok" and ret the dict, or err is
\* the error raised; self is the object after the call.
get_main_dict(self, exclude) ==
    IF ColumnAttrsError(self) # "ok"
    THEN [err |-> ColumnAttrsError(self), ret |-> <<>>, self |-> self]
    ELSE [err |-> "ok",
          ret |-> [k \in MainDictKeys(self, exclude) |-> self.attrs[k]],
          self |-> self]

\* Mutant of as_dict: the reserved name is left out.
as_dict_withoutReserved(self) == get_main_dict(self, Names({ReservedName}))

\* Saveable.as_dict (db.py:124-128)
as_dict(self) == get_main_dict(self, Names({}))

\* Mutant of RenameReserved: the reserved key is not deleted.
RenameReserved_noDelete(ats) ==
    [k \in DOMAIN ats \cup {RenamedName} |->
        IF k = RenamedName THEN ats[ReservedName] ELSE ats[k]]

\* db.py:68-69, for a dict that has the key "metadata".
RenameReserved(ats) ==
    [k \in (DOMAIN ats \ {ReservedName}) \cup {RenamedName} |->
        IF k = RenamedName THEN ats[ReservedName] ELSE ats[k]]

\* What save has done outside the process: the directory made (db.py:74),
\* the tables created (db.py:77-78), and the rows committed, each named by
\* its model class.
NoStore == [directory |-> FALSE, tables |-> FALSE, rows |-> <<>>]

\* db.py:71-78
SetUpStore(st) == [st EXCEPT !.directory = TRUE, !.tables = TRUE]

\* Mutant of AddRow: the session is not committed.
AddRow_noCommit(st, model) == st

\* db.py:83-86: the session adds one object of the model class and commits.
AddRow(st, model) == [st EXCEPT !.rows = Append(@, model)]

SaveOutcome(e, self, st, handed, model) ==
    [err |-> e, self |-> self, store |-> st, handed |-> handed, model |-> model]

\* Mutant of save: the store is set up before the object is serialized.
save_setUpFirst(self, st) ==
    LET st1 == SetUpStore(st)
        d == get_main_dict(self, NoneNames)
    IN  IF d.err # "ok" THEN SaveOutcome(d.err, d.self, st1, <<>>, None)
        ELSE IF ReservedName \notin DOMAIN d.ret
        THEN SaveOutcome("KeyError", d.self, st1, <<>>, None)
        ELSE IF self.class \notin DOMAIN SAVEABLE_TO_DATABASE_MODEL
        THEN SaveOutcome("KeyError", d.self, st1, <<>>, None)
        ELSE LET model == SAVEABLE_TO_DATABASE_MODEL[self.class] IN
             SaveOutcome("ok", d.self, AddRow(st1, model),
                         RenameReserved(d.ret), model)

\* Saveable.save (db.py:57-88) with the store as st.  err is "ok" or the
\* error raised; store is the store after the call; handed is the dict given
\* to the model class and model that class.
save(self, st) ==
    LET d == get_main_dict(self, NoneNames) IN
    IF d.err # "ok" THEN SaveOutcome(d.err, d.self, st, <<>>, None)
    ELSE IF ReservedName \notin DOMAIN d.ret
    THEN SaveOutcome("KeyError", d.self, st, <<>>, None)
    ELSE LET ats == RenameReserved(d.ret)
             st1 == SetUpStore(st)
         IN  IF self.class \notin DOMAIN SAVEABLE_TO_DATABASE_MODEL
             THEN SaveOutcome("KeyError", d.self, st1, <<>>, None)
             ELSE LET model == SAVEABLE_TO_DATABASE_MODEL[self.class] IN
                  SaveOutcome("ok", d.self, AddRow(st1, model), ats, model)

\* Mutant of get_next_available_id: the counter is incremented first.
get_next_available_id_incrementFirst(self) ==
    [ret |-> self.counter + 1, self |-> [self EXCEPT !.counter = @ + 1]]

\* Saveable.get_next_available_id (db.py:52-55): the value returned, and the
\* object after the call.
get_next_available_id(self) ==
    [ret |-> self.counter, self |-> [self EXCEPT !.counter = @ + 1]]

(***************************************************************************)
(* State machine                                                           *)
(***************************************************************************)
NoSer ==
    [op |-> "none", exclude |-> NoneNames, self |-> NoEntity, store |-> NoStore,
     err |-> "ok", ret |-> <<>>, handed |-> <<>>, model |-> None]

NoCall ==
    [op |-> "none", object_list |-> NoneList, obj_ids |-> NoneList, cls |-> None,
     active |-> NoneBackend, err |-> "ok", ret |-> NoneList]

NoProxy ==
    [op |-> "none", identity |-> IntIdentity(0), cls |-> None, backend |-> None,
     active |-> NoneBackend, err |-> "ok", obj |-> NoObject]

Init ==
    /\ DB_backend = NoneBackend
    /\ caller_list = NoneList
    /\ call = NoCall
    /\ proxy = NoProxy
    /\ reads = <<>>
    /\ loads = <<>>
    /\ entity = NoEntity
    /\ ser = NoSer
    /\ store = NoStore
    /\ instances = [i \in 1..NumInstances |-> NoEntity]
    /\ issued = [i \in 1..NumInstances |-> <<>>]

\* Configuration code switches the active backend.
SetBackend(b) ==
    /\ call = NoCall
    /\ b # DB_backend
    /\ DB_backend' = b
    /\ UNCHANGED <<caller_list, call, proxy, reads, loads>>
    /\ UNCHANGED saveable_vars
    /\ UNCHANGED counter_vars

\* The caller starts a relation: no list, or an empty one.
NewList(l) ==
    /\ call = NoCall
    /\ caller_list # l
    /\ caller_list' = l
    /\ UNCHANGED <<DB_backend, call, proxy, reads, loads>>
    /\ UNCHANGED saveable_vars
    /\ UNCHANGED counter_vars

\* The caller puts an object it has in memory into its list.
AppendObject(o) ==
    /\ call = NoCall
    /\ ~caller_list.isNone
    /\ Len(caller_list.items) + 1 < MaxLen
    /\ caller_list' = List(Append(caller_list.items, o))
    /\ UNCHANGED <<DB_backend, call, proxy, reads, loads>>
    /\ UNCHANGED saveable_vars
    /\ UNCHANGED counter_vars

\* The caller calls fill_object_list on its list.
Fill(obj_ids, cls) ==
    /\ call = NoCall
    /\ Len(caller_list.items) < MaxLen
    /\ Len(caller_list.items) + Len(obj_ids.items) <= MaxLen
    /\ LET r == fill_object_list(caller_list, obj_ids, cls, DB_backend) IN
       /\ call' = [op |-> "fill_object_list", object_list |-> caller_list,
                   obj_ids |-> obj_ids, cls |-> cls, active |-> DB_backend,
                   err |-> r.err, ret |-> r.ret]
       /\ caller_list' = r.arg
    /\ UNCHANGED <<DB_backend, proxy, reads, loads>>
    /\ UNCHANGED saveable_vars
    /\ UNCHANGED counter_vars

\* The call is over: the caller keeps the returned list as its list, as in
\* `lst = fill_object_list(lst, ids)`, or keeps its list if the call raised.
TakeResult ==
    /\ call # NoCall
    /\ caller_list' = IF call.err = "ok" THEN call.ret ELSE caller_list
    /\ call' = NoCall
    /\ UNCHANGED <<DB_backend, proxy, reads, loads>>
    /\ UNCHANGED saveable_vars
    /\ UNCHANGED counter_vars

\* PlaceHolderObject(identity, cls, backend), held by the caller as its proxy.
Construct(identity, cls, backend) ==
    /\ proxy = NoProxy
    /\ LET r == PlaceHolderObject_init(identity, cls, backend, DB_backend) IN
       proxy' = [op |-> "PlaceHolderObject", identity |-> identity, cls |-> cls,
                 backend |-> backend, active |-> DB_backend,
                 err |-> r.err, obj |-> r.obj]
    /\ reads' = <<>>
    /\ loads' = <<>>
    /\ UNCHANGED <<DB_backend, caller_list, call>>
    /\ UNCHANGED saveable_vars
    /\ UNCHANGED counter_vars

\* The caller drops its proxy (or the error it got for one).
Discard ==
    /\ proxy # NoProxy
    /\ proxy' = NoProxy
    /\ reads' = <<>>
    /\ loads' = <<>>
    /\ UNCHANGED <<DB_backend, caller_list, call>>
    /\ UNCHANGED saveable_vars
    /\ UNCHANGED counter_vars

\* proxy.short_identity is read.
ReadShortIdentity ==
    /\ proxy.op = "PlaceHolderObject"
    /\ proxy.err = "ok"
    /\ Len(reads) < MaxReads
    /\ reads' = Append(reads, [active |-> DB_backend,
                               value |-> short_identity(proxy.obj, DB_backend)])
    /\ UNCHANGED <<DB_backend, caller_list, call, proxy, loads>>
    /\ UNCHANGED saveable_vars
    /\ UNCHANGED counter_vars

\* proxy.get_object() is called.
GetObject ==
    /\ proxy.op = "PlaceHolderObject"
    /\ proxy.err = "ok"
    /\ Len(loads) < MaxLoads
    /\ LET r == get_object(proxy.obj) IN
       /\ loads' = Append(loads, [active |-> DB_backend, request |-> r.request,
                                  entity |-> Saveable_get(r.request)])
       /\ proxy' = [proxy EXCEPT !.obj = r.self]
    /\ UNCHANGED <<DB_backend, caller_list, call, reads>>
    /\ UNCHANGED saveable_vars
    /\ UNCHANGED counter_vars

\* An object of a Saveable class is made.
Create(class, column_attrs, extra_column_attrs, attrs) ==
    /\ entity = NoEntity
    /\ entity' = Saveable_init(class, column_attrs, extra_column_attrs, attrs)
    /\ UNCHANGED <<DB_backend, caller_list, call, proxy, reads, loads, ser, store>>
    /\ UNCHANGED counter_vars

\* An attribute of the object is assigned.
SetAttr(n, v) ==
    /\ entity # NoEntity
    /\ entity.attrs[n] # v
    /\ entity' = [entity EXCEPT !.attrs[n] = v]
    /\ ser' = NoSer
    /\ UNCHANGED <<DB_backend, caller_list, call, proxy, reads, loads, store>>
    /\ UNCHANGED counter_vars

\* entity.get_main_dict(exclude)
GetMainDict(exclude) ==
    /\ entity # NoEntity
    /\ LET r == get_main_dict(entity, exclude) IN
       /\ ser' = [op |-> "get_main_dict", exclude |-> exclude, self |-> entity,
                  store |-> store, err |-> r.err, ret |-> r.ret,
                  handed |-> <<>>, model |-> None]
       /\ entity' = r.self
    /\ UNCHANGED <<DB_backend, caller_list, call, proxy, reads, loads, store>>
    /\ UNCHANGED counter_vars

\* entity.as_dict()
AsDict ==
    /\ entity # NoEntity
    /\ LET r == as_dict(entity) IN
       /\ ser' = [op |-> "as_dict", exclude |-> NoneNames, self |-> entity,
                  store |-> store, err |-> r.err, ret |-> r.ret,
                  handed |-> <<>>, model |-> None]
       /\ entity' = r.self
    /\ UNCHANGED <<DB_backend, caller_list, call, proxy, reads, loads, store>>
    /\ UNCHANGED counter_vars

\* entity.save()
Save ==
    /\ entity # NoEntity
    /\ Len(store.rows) < MaxSaves
    /\ LET r == save(entity, store) IN
       /\ ser' = [op |-> "save", exclude |-> NoneNames, self |-> entity,
                  store |-> store, err |-> r.err, ret |-> <<>>,
                  handed |-> r.handed, model |-> r.model]
       /\ entity' = r.self
       /\ store' = r.store
    /\ UNCHANGED <<DB_backend, caller_list, call, proxy, reads, loads>>
    /\ UNCHANGED counter_vars

\* The i-th object is made, of a Saveable class with no declarations.
CreateInstance(i, class) ==
    /\ instances[i] = NoEntity
    /\ instances' = [instances EXCEPT ![i] =
            Saveable_init(class, NoneNames, NoneTables, [n \in AttrNames |-> 0])]
    /\ UNCHANGED <<DB_backend, caller_list, call, proxy, reads, loads, issued>>
    /\ UNCHANGED saveable_vars

\* instances[i].get_next_available_id()
GetNextAvailableId(i) ==
    /\ instances[i] # NoEntity
    /\ Len(issued[i]) < MaxIssued
    /\ LET r == get_next_available_id(instances[i]) IN
       /\ issued' = [issued EXCEPT ![i] = Append(@, r.ret)]
       /\ instances' = [instances EXCEPT ![i] = r.self]
    /\ UNCHANGED <<DB_backend, caller_list, call, proxy, reads, loads>>
    /\ UNCHANGED saveable_vars

ColumnAttrsArgs == {NoneNames} \cup {Names(S) : S \in SUBSET AttrNames}
ExcludeArgs == {NoneNames} \cup {Names(S) : S \in SUBSET {"name", ReservedName}}
\* None, the empty dict, and dicts of one or two tables of one name each.
ExtraColumnAttrsArgs ==
    {NoneTables}
        \cup UNION {{Tables(f) : f \in [T -> {{n} : n \in ExtraAttrNames}]} :
                       T \in SUBSET TableNames}

ObjIdsArgs == {NoneList} \cup {List(s) : s \in SeqsUpTo(Ids, MaxLen)}
ClsArgs == {"DataSeries", None}
IdentityArgs ==
    {IntIdentity(i) : i \in Ids}
        \cup {TupleIdentity(b, i) : b \in BackendArgs, i \in Ids}

NextReconcile ==
    \/ \E b \in ActiveBackends : SetBackend(b)
    \/ \E l \in {NoneList, List(<<>>)} : NewList(l)
    \/ \E o \in LoadedObjects \cup {Opaque} : AppendObject(o)
    \/ \E ids \in ObjIdsArgs, c \in ClsArgs : Fill(ids, c)
    \/ TakeResult

NextPlaceholder ==
    \/ \E b \in ActiveBackends : SetBackend(b)
    \/ \E i \in IdentityArgs, c \in EntityClasses, b \in BackendArgs : Construct(i, c, b)
    \/ ReadShortIdentity
    \/ Discard

NextResolve ==
    \/ \E b \in ActiveBackends : SetBackend(b)
    \/ \E i \in IdentityArgs, c \in EntityClasses, b \in BackendArgs : Construct(i, c, b)
    \/ GetObject
    \/ Discard

NextSaveable ==
    \/ \E c \in SaveableClasses, ca \in ColumnAttrsArgs,
          xa \in ExtraColumnAttrsArgs, a \in [AttrNames -> AttrValues] :
            Create(c, ca, xa, a)
    \/ \E n \in AttrNames, v \in AttrValues : SetAttr(n, v)
    \/ \E x \in ExcludeArgs : GetMainDict(x)
    \/ AsDict
    \/ Save

NextCounter ==
    \/ \E i \in 1..NumInstances, c \in SaveableClasses : CreateInstance(i, c)
    \/ \E i \in 1..NumInstances : GetNextAvailableId(i)

Next ==
    NextReconcile \/ NextPlaceholder \/ NextResolve \/ NextSaveable \/ NextCounter

\* The reconciler and its caller.
SpecReconcile == Init /\ [][NextReconcile]_vars
\* The placeholder proxy and the active backend pointer.
SpecPlaceholder == Init /\ [][NextPlaceholder]_vars
\* The placeholder proxy and its resolution.
SpecResolve == Init /\ [][NextResolve]_vars
\* A Saveable object, its serialization and its storage.
SpecSaveable == Init /\ [][NextSaveable]_vars
\* Saveable objects and the ids they give out.
SpecCounter == Init /\ [][NextCounter]_vars
Spec == Init /\ [][Next]_vars

(***************************************************************************)
(* Vocabulary of the claims                                                *)
(***************************************************************************)
Range(seq) == {seq[k] : k \in DOMAIN seq}

\* The ids of the elements of a list that have one.
IdSet(items) == {items[k].id : k \in {j \in DOMAIN items : items[j].hasid}}

\* The full identity of an element that has an id.
FullIdentity(o) == <<o.backend, o.id>>

NoDuplicateIdentity(items) ==
    \A j, k \in DOMAIN items :
        (j # k /\ items[j].hasid /\ items[k].hasid)
            => FullIdentity(items[j]) # FullIdentity(items[k])

RECURSIVE IsSubsequence(_, _)
\* a is b with some elements left out.
IsSubsequence(a, b) ==
    IF a = <<>> THEN TRUE
    ELSE IF b = <<>> THEN FALSE
    ELSE IF Head(a) = Head(b) THEN IsSubsequence(Tail(a), Tail(b))
    ELSE IsSubsequence(a, Tail(b))

\* A call of fill_object_list has been made; it returned normally.
Called == call.op = "fill_object_list"
Returned == Called /\ call.err = "ok"
Existing == call.object_list.items
Result == call.ret.items
\* The positions of the result after the existing elements.
Added == (Len(Existing) + 1)..Len(Result)
NoIds == call.obj_ids.isNone \/ call.obj_ids.items = <<>>

Constructed == proxy.op = "PlaceHolderObject"

(***************************************************************************)
(* Claims                                                                  *)
(***************************************************************************)

\* C1 (as claimed): whenever fill_object_list returns normally, the set of
\* ids of the returned list is the set of ids of existing_list united with
\* the set of referenced ids.
C1_IdSetIsUnion ==
    Returned => IdSet(Result) = IdSet(Existing) \cup Range(call.obj_ids.items)

\* C2 (as claimed): for an existing_list without duplicate identities, the
\* returned list holds no two elements with the same identity, also when
\* referenced_ids repeats an id.
C2_NoDuplicateIdentity ==
    (Returned /\ NoDuplicateIdentity(Existing)) => NoDuplicateIdentity(Result)

\* C3: the returned list is existing_list, in its order, followed only by
\* placeholders whose ids are in the order they have in referenced_ids.
C3_ExistingThenPlaceholdersInOrder ==
    Returned =>
        /\ Len(Result) >= Len(Existing)
        /\ SubSeq(Result, 1, Len(Existing)) = Existing
        /\ \A k \in Added : Result[k].class = PlaceHolderClass
        /\ IsSubsequence([k \in 1..(Len(Result) - Len(Existing)) |->
                              Result[Len(Existing) + k].id],
                         call.obj_ids.items)

\* C3 witness: one loaded object with id 1, referenced ids [2, 3], and the
\* result holds ids 1, 2, 3 in this order.
C3_Witness ==
    /\ Returned
    /\ Len(Existing) = 1
    /\ call.obj_ids.items = <<2, 3>>
    /\ [k \in 1..Len(Result) |-> Result[k].id] = <<1, 2, 3>>

\* C4 (as claimed): with existing_list absent or empty and an entity_class
\* given (and a usable active backend), the call returns one placeholder of
\* that class for each referenced id, in order.
C4_EmptyListIsFilled ==
    (/\ Called
     /\ Existing = <<>>
     /\ call.cls # None
     /\ call.active \in ConcreteBackends
     /\ ~call.obj_ids.isNone)
    => /\ call.err = "ok"
       /\ Len(Result) = Len(call.obj_ids.items)
       /\ \A k \in DOMAIN Result :
            /\ Result[k].class = PlaceHolderClass
            /\ Result[k].id = call.obj_ids.items[k]
            /\ Result[k].cls = call.cls

\* C5: if an element of existing_list has no id, the call returns
\* existing_list with the same elements in the same order, appends nothing
\* to the caller's list, and raises nothing, whatever referenced_ids holds.
C5_NoIdentityFallback ==
    (Called /\ \E k \in DOMAIN Existing : ~Existing[k].hasid)
    => /\ call.err = "ok"
       /\ call.ret = call.object_list
       /\ caller_list = call.object_list

\* C5 witness: a list with an object without id is filled with an id it
\* does not hold, under a usable backend.
C5_Witness ==
    /\ Called
    /\ \E k \in DOMAIN Existing : ~Existing[k].hasid
    /\ call.active \in ConcreteBackends
    /\ \E i \in Range(call.obj_ids.items) : i \notin IdSet(Existing)

\* C6 (as claimed): with referenced_ids empty or absent the call returns the
\* elements of existing_list and raises nothing, for every existing_list and
\* with or without an entity_class.
C6_NoIdsNeverRaises ==
    (Called /\ NoIds) => (call.err = "ok" /\ Result = Existing)

\* C6 (amended): with referenced_ids empty or absent, and existing_list
\* non-empty or an entity_class given, the call raises nothing and returns a
\* list of exactly the elements of existing_list, and the caller's list is
\* as it was; with no entity_class and no element it raises.
C6_NoIdsReturnsExisting ==
    (Called /\ NoIds) =>
        IF call.cls # None \/ Existing # <<>>
        THEN /\ call.err = "ok"
             /\ ~call.ret.isNone
             /\ Result = Existing
             /\ caller_list = call.object_list
        ELSE call.err \in {"IndexError", "TypeError"}

\* C6 witness: an empty list is filled with no ids under a given class.
C6_Witness ==
    /\ Called
    /\ NoIds
    /\ ~call.object_list.isNone
    /\ Existing = <<>>
    /\ call.cls # None

\* C7 (as claimed): an empty existing_list and no entity_class fail with
\* AmbiguityError; a non-empty existing_list and no entity_class give the
\* new placeholders the class of the first element.
C7_AmbiguityError ==
    /\ (Called /\ call.cls = None /\ Existing = <<>>)
           => call.err = "AmbiguityError"
    /\ (Returned /\ call.cls = None /\ Existing # <<>>)
           => \A k \in Added : Result[k].cls = Existing[1].class

\* C7 (amended): an empty existing_list and no entity_class fail with
\* IndexError, an absent existing_list and no entity_class with TypeError; a
\* non-empty existing_list and no entity_class give the new placeholders
\* the class of the first element.
C7_ClassOfFirstElement ==
    /\ (Called /\ call.cls = None /\ call.object_list.isNone)
           => call.err = "TypeError"
    /\ (Called /\ call.cls = None /\ ~call.object_list.isNone /\ Existing = <<>>)
           => call.err = "IndexError"
    /\ (Returned /\ call.cls = None /\ Existing # <<>>)
           => \A k \in Added : Result[k].cls = Existing[1].class

\* C7 witness: no class is given, the list's first and last elements differ
\* in class, and a placeholder is appended.
C7_Witness ==
    /\ Returned
    /\ call.cls = None
    /\ Len(Existing) = 2
    /\ Existing[1].class # Existing[2].class
    /\ Added # {}

\* C8: a constructed proxy is never bound to an absent backend or to the
\* none-sentinel: construction either binds a concrete backend or fails
\* with DataBaseError, and it fails whenever neither the tuple, nor the
\* backend argument, nor the active backend pointer gives a concrete backend.
C8_NeverBoundToNoBackend ==
    Constructed =>
        /\ proxy.err \in {"ok", "DataBaseError"}
        /\ proxy.err = "ok" => proxy.obj.backend \in ConcreteBackends
        /\ ({proxy.identity.backend, proxy.backend, proxy.active}
                \cap ConcreteBackends = {})
               => proxy.err = "DataBaseError"

\* C8 witness: a proxy for a bare id is constructed with no backend argument
\* while the active backend is the none-sentinel, and construction fails.
C8_Witness ==
    /\ Constructed
    /\ proxy.identity.isint
    /\ proxy.backend = None
    /\ proxy.active = NoneBackend
    /\ proxy.err = "DataBaseError"

\* C9 (as claimed): constructed from a tuple (backend, id) and a backend
\* argument, the proxy is bound to the backend argument.
C9_ArgumentOverridesTuple ==
    (Constructed /\ ~proxy.identity.isint /\ proxy.backend # None
        /\ proxy.err = "ok")
    => proxy.obj.backend = proxy.backend

\* C9 (amended): constructed from a tuple (backend, id), the proxy is bound
\* to the tuple's backend and the backend argument is ignored: a concrete
\* tuple backend is bound, an absent one gives way to the active backend,
\* and the none-sentinel fails with DataBaseError.
C9_TupleOverridesArgument ==
    (Constructed /\ ~proxy.identity.isint) =>
        /\ proxy.identity.backend \in ConcreteBackends
               => (proxy.err = "ok" /\ proxy.obj.backend = proxy.identity.backend)
        /\ (proxy.identity.backend = None /\ proxy.err = "ok")
               => proxy.obj.backend = proxy.active
        /\ proxy.identity.backend \in {NoneString, NoneBackend}
               => proxy.err = "DataBaseError"

\* C9 witness: a tuple with one concrete backend and an argument naming the
\* other, and the construction succeeds.
C9_Witness ==
    /\ Constructed
    /\ ~proxy.identity.isint
    /\ proxy.identity.backend \in ConcreteBackends
    /\ proxy.backend \in ConcreteBackends
    /\ proxy.backend # proxy.identity.backend
    /\ proxy.err = "ok"

\* C10: every read of short_identity gives the bare id if the proxy's
\* backend is the active backend at the time of that read, and the pair
\* (backend, id) otherwise.
C10_ShortIdentityFollowsActiveBackend ==
    \A k \in DOMAIN reads :
        reads[k].value =
            IF proxy.obj.backend = reads[k].active
            THEN IntIdentity(proxy.obj.id)
            ELSE TupleIdentity(proxy.obj.backend, proxy.obj.id)

\* C10 witness: one proxy is read as the bare id, then as the pair after the
\* active backend is switched away, then as the bare id after it is
\* switched back.
C10_Witness ==
    /\ Len(reads) = 3
    /\ reads[1].value.isint
    /\ ~reads[2].value.isint
    /\ reads[3].value.isint

\* Two placeholders for the same id, read under one active backend, have
\* equal short identities exactly if they have the same backend.
PlaceholderShortIdentitiesAgree ==
    (Constructed /\ proxy.err = "ok") =>
        \A b \in ConcreteBackends, c \in EntityClasses :
            LET other == Element(PlaceHolderClass, TRUE, proxy.obj.id, c, b) IN
            (short_identity(proxy.obj, DB_backend) = short_identity(other, DB_backend))
                <=> (b = proxy.obj.backend)

\* A loaded object and a placeholder for its id on the active backend have
\* equal short identities.
LoadedShortIdentityAgrees ==
    (Constructed /\ proxy.err = "ok" /\ proxy.obj.backend = DB_backend) =>
        \A e \in LoadedObjects :
            e.id = proxy.obj.id
                => Saveable_identity(e) = short_identity(proxy.obj, DB_backend)

\* C11 (as claimed): under one active backend the short identities of two
\* references (placeholders or loaded entities) to equal ids are equal if
\* both are on the same backend and unequal if they are on different ones.
C11_ShortIdentitiesAgree ==
    PlaceholderShortIdentitiesAgree /\ LoadedShortIdentityAgrees

\* C12: every get_object asks for exactly the proxy's class and id on the
\* proxy's own backend, whatever the active backend is then, so any two
\* calls ask for the same and yield objects of equal identity.
C12_GetObjectDelegates ==
    /\ \A k \in DOMAIN loads :
         loads[k].request = [cls |-> proxy.obj.cls, id |-> proxy.obj.id,
                             backend |-> proxy.obj.backend]
    /\ \A j, k \in DOMAIN loads :
         /\ loads[j].request = loads[k].request
         /\ FullIdentity(loads[j].entity) = FullIdentity(loads[k].entity)
         /\ FullIdentity(loads[k].entity) = FullIdentity(proxy.obj)

\* C12 witness: get_object is called twice with the active backend switched
\* in between.
C12_Witness ==
    /\ Len(loads) >= 2
    /\ loads[1].active # loads[2].active

\* Whether a reference stands for an object that is still to be loaded.
ProxyState(o) == IF o.class = PlaceHolderClass THEN "unresolved" ELSE "resolved"

\* C13 (as claimed): a proxy is unresolved at construction and resolved
\* once a resolve has succeeded.
C13_ResolvedByResolve ==
    (Constructed /\ proxy.err = "ok") =>
        ProxyState(proxy.obj) = IF loads = <<>> THEN "unresolved" ELSE "resolved"

\* C13 (amended): a proxy is unresolved at construction and stays so: a
\* successful get_object returns the object and leaves the proxy what it
\* was, a placeholder of the same class, id and backend.
C13_ProxyStaysUnresolved ==
    (Constructed /\ proxy.err = "ok") =>
        /\ ProxyState(proxy.obj) = "unresolved"
        /\ proxy.obj.id = proxy.identity.id
        /\ proxy.obj.cls = proxy.cls

\* C13 witness: get_object has succeeded twice on a proxy.
C13_Witness ==
    /\ Constructed
    /\ proxy.err = "ok"
    /\ Len(loads) >= 2


(***************************************************************************)
(* Saveable: serialization and saving                                      *)
(***************************************************************************)
Serialized(op) == ser.op = op
\* The names a class declares under any table of its extra_column_attrs.
DeclaredExtra(e) ==
    IF e.extra_column_attrs.isNone THEN {}
    ELSE {n \in AttrNames : \E t \in DOMAIN e.extra_column_attrs.tables :
                                n \in e.extra_column_attrs.tables[t]}
Excluded == IF ser.exclude.isNone THEN {} ELSE ser.exclude.names
Undefined(e) == e.column_attrs.isNone

C15_UndefinedIsSchemaError ==
    ((Serialized("get_main_dict") \/ Serialized("as_dict")) /\ Undefined(ser.self))
        => ser.err = "SchemaError"

\* C15 (amended): get_main_dict and as_dict on an entity whose column_attrs
\* is None fail with DataBaseError and return no mapping.
C15_UndefinedIsDataBaseError ==
    ((Serialized("get_main_dict") \/ Serialized("as_dict")) /\ Undefined(ser.self))
        => (ser.err = "DataBaseError" /\ ser.ret = <<>>)

C15_Witness ==
    /\ Serialized("as_dict")
    /\ Undefined(ser.self)
    /\ ser.err = "DataBaseError"

\* C16 (as stated): the mapping returned by get_main_dict never has the
\* reserved name "metadata" as a key.
C16_ReturnedWithoutReservedKey ==
    ((Serialized("get_main_dict") \/ Serialized("as_dict")) /\ ser.err = "ok")
        => ReservedName \notin DOMAIN ser.ret

\* C16 (amended): get_main_dict returns a declared attribute "metadata"
\* under its own name and never under the renamed key; it is the mapping
\* that a save hands to the model class that has the renamed key and not
\* the reserved one.
C16_RenamedBySaveOnly ==
    /\ ((Serialized("get_main_dict") \/ Serialized("as_dict")) /\ ser.err = "ok") =>
          /\ RenamedName \notin DOMAIN ser.ret
          /\ (ReservedName \in (ser.self.column_attrs.names \ Excluded)
                                    \cup DeclaredExtra(ser.self))
                => ReservedName \in DOMAIN ser.ret
    /\ (Serialized("save") /\ ser.err = "ok") =>
          /\ ReservedName \notin DOMAIN ser.handed
          /\ RenamedName \in DOMAIN ser.handed

\* An entity that has been saved, and so handed over under the renamed key,
\* returns a mapping that has the reserved key.
C16_Witness ==
    /\ Serialized("get_main_dict")
    /\ ser.err = "ok"
    /\ ReservedName \in DOMAIN ser.ret
    /\ store.rows # <<>>

\* C17: as_dict returns what get_main_dict(exclude=[]) returns and fails
\* when it fails, and neither call changes the entity's attributes or
\* counter.
C17_AsDictIsMainDictAndPure ==
    /\ Serialized("as_dict") =>
          /\ ser.err = get_main_dict(ser.self, Names({})).err
          /\ ser.ret = get_main_dict(ser.self, Names({})).ret
    /\ (Serialized("as_dict") \/ Serialized("get_main_dict")) =>
          /\ entity.attrs = ser.self.attrs
          /\ entity.counter = ser.self.counter
          /\ entity = ser.self

C17_Witness ==
    /\ Serialized("as_dict")
    /\ ser.err = "ok"
    /\ ReservedName \in DOMAIN ser.ret
    /\ \E k \in DOMAIN ser.ret : ser.ret[k] = 1

\* C18: a successful save hands the model class the mapping of as_dict with
\* the key "metadata" replaced by "ixd_metadata" at the same value, and adds
\* exactly one row of the model class registered for the entity's class.
C18_SaveHandsRenamedAddsOneRow ==
    (Serialized("save") /\ ser.err = "ok") =>
        /\ as_dict(ser.self).err = "ok"
        /\ DOMAIN ser.handed =
              (DOMAIN as_dict(ser.self).ret \ {ReservedName}) \cup {RenamedName}
        /\ ReservedName \in DOMAIN as_dict(ser.self).ret
        /\ ser.handed[RenamedName] = ser.self.attrs[ReservedName]
        /\ \A k \in DOMAIN ser.handed \ {RenamedName} :
              ser.handed[k] = ser.self.attrs[k]
        /\ ser.self.class \in RegisteredClasses
        /\ ser.model = SAVEABLE_TO_DATABASE_MODEL[ser.self.class]
        /\ store.rows = Append(ser.store.rows, ser.model)

\* The second successful save: two saves, two rows.
C18_Witness ==
    /\ Serialized("save")
    /\ ser.err = "ok"
    /\ Len(store.rows) = 2
    /\ ser.handed[RenamedName] = 1

\* C19: save on an entity whose class has no entry in
\* SAVEABLE_TO_DATABASE_MODEL fails with DataBaseError.
C19_UnregisteredIsDataBaseError ==
    (Serialized("save") /\ ser.self.class \notin RegisteredClasses)
        => ser.err = "DataBaseError"

\* C20 (as stated): save on an entity whose column_attrs is None raises
\* SchemaError and performs no I/O.
C20_UndefinedSaveIsSchemaError ==
    (Serialized("save") /\ Undefined(ser.self))
        => (ser.err = "SchemaError" /\ store = ser.store)

\* C20 (amended): save on an entity whose column_attrs is None raises
\* DataBaseError and performs no I/O: no directory, no tables, no row.
C20_UndefinedSaveNoIO ==
    (Serialized("save") /\ Undefined(ser.self))
        => (ser.err = "DataBaseError" /\ store = ser.store)

C20_Witness ==
    /\ Serialized("save")
    /\ Undefined(ser.self)
    /\ ser.err = "DataBaseError"
    /\ store = NoStore

(***************************************************************************)
(* Saveable: the ephemeral counter                                         *)
(***************************************************************************)
\* C21: the counter of an object starts at 0 and every call of
\* get_next_available_id returns the current value and then increments it:
\* the k-th call on one object returns k-1, the returned values increase
\* strictly, and the counter is the number of calls made.
C21_KthCallReturnsKMinusOne ==
    \A i \in 1..NumInstances :
        /\ \A k \in DOMAIN issued[i] : issued[i][k] = k - 1
        /\ \A j, k \in DOMAIN issued[i] : j < k => issued[i][j] < issued[i][k]
        /\ instances[i].counter = Len(issued[i])

\* Two distinct objects have returned the same value, one of them as its
\* second call.
C21_Witness ==
    /\ Len(issued[1]) >= 2
    /\ \E k \in DOMAIN issued[2] : issued[2][k] = issued[1][2]

(***************************************************************************)
(* fill_object_list: errors, frame and repetition                          *)
(***************************************************************************)
\* An element of the existing list has no id.
SomeWithoutId == \E k \in DOMAIN Existing : ~Existing[k].hasid
\* The class is neither given nor readable from a first element.
NoClass == Falsy(call.cls) /\ Existing = <<>>
\* A referenced id that no element of the existing list has as its id.
Unrepresented == Range(call.obj_ids.items) \ IdSet(Existing)

C23_OnlyFillsGaps ==
    Called =>
        /\ call.err = "ok" =>
              /\ Len(Result) >= Len(Existing)
              /\ \A k \in DOMAIN Existing : Result[k] = Existing[k]
        /\ Len(caller_list.items) >= Len(Existing)
        /\ \A k \in DOMAIN Existing : caller_list.items[k] = Existing[k]
        /\ DB_backend = call.active

\* A list that holds a loaded object and a placeholder has been filled with
\* one more placeholder.
C23_Witness ==
    /\ Returned
    /\ Len(Result) > Len(Existing)
    /\ \E k \in DOMAIN Existing : Existing[k].class = PlaceHolderClass
    /\ \E k \in DOMAIN Existing : Existing[k].class \in EntityClasses

\* C24 (as stated, for a list that is not empty): if the active backend is
\* the none-sentinel and a referenced id is unrepresented, fill_object_list
\* fails with DataBaseError.
C24_NoneBackendAlwaysFails ==
    (Called /\ call.active = NoneBackend /\ Unrepresented # {} /\ Existing # <<>>)
        => call.err = "DataBaseError"

\* C24 (amended): every placeholder appended carries the class determined
\* for the call, a referenced id that no existing element has, and the
\* backend active when the call was made; with the none-sentinel active and
\* a referenced id unrepresented the call fails with DataBaseError if
\* existing_list is not empty and all its elements have an id.
C24_PlaceholdersOfTheCall ==
    /\ Returned =>
          \A k \in Added :
              /\ Result[k].class = PlaceHolderClass
              /\ Result[k].cls =
                    (IF Falsy(call.cls) THEN Existing[1].class ELSE call.cls)
              /\ Result[k].id \in Unrepresented
              /\ Result[k].backend = call.active
    /\ (Called /\ call.active = NoneBackend /\ Unrepresented # {}
            /\ Existing # <<>> /\ ~SomeWithoutId)
          => call.err = "DataBaseError"

\* Placeholders were appended, their class taken from the first element.
C24_Witness ==
    /\ Returned
    /\ Added # {}
    /\ Falsy(call.cls)
    /\ call.active \in ConcreteBackends

\* C25: for an existing_list that is not empty, fill_object_list appends to
\* the caller's list in place and returns that list: after the call the
\* caller's list and the returned list have the same contents.
C25_AppendsInPlace ==
    (Returned /\ Existing # <<>>) =>
        /\ caller_list = call.ret
        /\ Len(caller_list.items) = Len(Existing) + Cardinality(Added)

\* The caller's list has grown by the placeholders of the call.
C25_Witness ==
    /\ Returned
    /\ Existing # <<>>
    /\ Added # {}
    /\ Len(caller_list.items) > Len(Existing)

\* The call made again on its own result, with the same referenced ids and
\* class and under the same active backend.
Again == fill_object_list(call.ret, call.obj_ids, call.cls, call.active)

\* C26: fill_object_list is idempotent under a fixed active backend: made
\* again on its own result with the same referenced ids and class, it
\* appends nothing and returns the same elements in the same order.
C26_Idempotent ==
    Returned => (Again.err = "ok" /\ Again.ret.items = Result)

\* The first call appended placeholders, one of them for an id that is
\* referenced twice; the second appends none.
C26_Witness ==
    /\ Returned
    /\ Added # {}
    /\ \E j, k \in DOMAIN call.obj_ids.items :
          /\ j < k
          /\ call.obj_ids.items[j] = call.obj_ids.items[k]
          /\ call.obj_ids.items[j] \in Unrepresented
    /\ Again.ret.items = Result

\* An element that is bound to a backend other than the one active at the
\* call.
OnOtherBackend(o) == o.class = PlaceHolderClass /\ o.backend # call.active

\* C27: fill_object_list decides by full identity whether a referenced id
\* is represented: when the only existing elements with that id are bound
\* to a backend other than the active one, a placeholder for the id on the
\* active backend is appended.  (For a list that is not empty and whose
\* elements all have an id, under a usable active backend.)
C27_RepresentedByFullIdentity ==
    (Returned /\ Existing # <<>> /\ ~SomeWithoutId
        /\ call.active \in ConcreteBackends) =>
        \A i \in Range(call.obj_ids.items) :
            (\A k \in DOMAIN Existing : Existing[k].id = i => OnOtherBackend(Existing[k]))
                => \E k \in Added : /\ Result[k].id = i
                                    /\ Result[k].backend = call.active

\* C28: if fill_object_list fails with DataBaseError because a placeholder
\* cannot be constructed, the caller's list is exactly what it was before
\* the call: no placeholder of the failed call is in it.
C28_FailedCallLeavesList ==
    (Called /\ call.err = "DataBaseError") => caller_list = call.object_list

\* The call failed with two referenced ids unrepresented.
C28_Witness ==
    /\ Called
    /\ call.err = "DataBaseError"
    /\ Existing # <<>>
    /\ Cardinality(Unrepresented) >= 2
    /\ caller_list = call.object_list
====
